---------------------------- MODULE Spec2Model ----------------------------
(***************************************************************************)
(* Model of the pregnancy document classifier service:                     *)
(*   src/main.py               POST /classify  (classify_endpoint)         *)
(*   src/classifier_service.py classify_document under its tenacity retry  *)
(*   src/spaces_service.py     store_document                              *)
(*                                                                         *)
(* Strings are sequences of one-character strings, so that lower(),        *)
(* endswith(), replace() and the key's concatenation are computed.         *)
(* Scores and confidences are integers in units of 10^-5 (ScoreUnit), so   *)
(* that round(x, 4) is computed and not assumed.                           *)
(*                                                                         *)
(* classifier_service.py imports `retry_if` from tenacity, a name tenacity  *)
(* does not export: with tenacity as released the import raises            *)
(* ImportError and the application is never loaded (loaded = FALSE, no     *)
(* request is served).  Where the environment supplies retry_if it is read *)
(* as retry_if_exception(pred): retry exactly when the attempt raised an   *)
(* exception e with pred(e) (loaded = TRUE).  Both are initial states.     *)
(* response.json() on a body that is not JSON raises                       *)
(* requests.exceptions.JSONDecodeError (a RequestException), as in         *)
(* requests >= 2.27.                                                       *)
(*                                                                         *)
(* Spec runs one request over every input; SpecConc runs all the requests  *)
(* on the one event loop (`running` is the request holding its thread);    *)
(* SpecTrunc runs one request whose text is around the payload limit.      *)
(***************************************************************************)
EXTENDS Integers, Sequences, FiniteSets, TLC

\* ------------------------------------------------------------------ bounds
\* Longest labels / scores sequence a remote response body carries.
MaxSeqLen == 2
\* Number of requests the process has received (Spec runs the first one,
\* SpecConc all of them).
NumRequests == 2
\* Attempt numbers over which the backoff curve is examined.
WaitProbe == 5
\* extracted texts are up to this many characters shorter or longer than the
\* payload limit
MaxExcess == 2

\* ------------------------------------------------------- program constants
\* stop_after_attempt(2)
MaxAttempts == 2
\* wait_exponential(multiplier=1, min=4, max=10)
WaitMultiplier == 1
WaitMin == 4
WaitMax == 10
\* text[:5000] if len(text) > 5000
MaxTextLen == 5000
\* round(score, 4): a confidence is a multiple of 10 units of 10^-5
RoundStep == 10
\* 1.0 in units of 10^-5
ScoreUnit == 100000

\* ----------------------------------------------------------------- strings
LowerAlpha == <<"a","b","c","d","e","f","g","h","i","j","k","l","m","n","o","p","q","r","s","t","u","v","w","x","y","z">>
UpperAlpha == <<"A","B","C","D","E","F","G","H","I","J","K","L","M","N","O","P","Q","R","S","T","U","V","W","X","Y","Z">>

\* the lowercase letter of each capital
LowerMap ==
    [c \in { UpperAlpha[i] : i \in 1..Len(UpperAlpha) } |->
        LowerAlpha[CHOOSE i \in 1..Len(UpperAlpha) : UpperAlpha[i] = c]]

\* str.lower() on one character
LowerChar(c) == IF c \in DOMAIN LowerMap THEN LowerMap[c] ELSE c

\* str.lower()
Lower(s) == [i \in 1..Len(s) |-> LowerChar(s[i])]

\* str.endswith(suffix)
EndsWith(s, suffix) ==
    /\ Len(s) >= Len(suffix)
    /\ SubSeq(s, Len(s) - Len(suffix) + 1, Len(s)) = suffix

\* str.replace(" ", "_")
ReplaceSpaces(s) == [i \in 1..Len(s) |-> IF s[i] = " " THEN "_" ELSE s[i]]

Slash == <<"/">>

\* ----------------------------------------------- classifier_service.py data
DOCUMENT_TYPES ==
    << <<"u","l","t","r","a","s","o","u","n","d"," ","r","e","p","o","r","t">>,
       <<"b","l","o","o","d"," ","t","e","s","t"," ","r","e","s","u","l","t","s">>,
       <<"u","r","i","n","e"," ","a","n","a","l","y","s","i","s">>,
       <<"p","r","e","n","a","t","a","l"," ","s","c","r","e","e","n","i","n","g">> >>

\* label of the RetryError handler of classify_endpoint
FallbackLabel == <<"u","n","c","l","a","s","s","i","f","i","e","d"," ","d","o","c","u","m","e","n","t">>
\* label of the (KeyError, IndexError) handler of classify_document
ParseErrorLabel == <<"u","n","k","n","o","w","n"," ","d","o","c","u","m","e","n","t">>
\* default of classification.get('label', 'unclassified')
DefaultDocType == <<"u","n","c","l","a","s","s","i","f","i","e","d">>

\* file.filename.lower().endswith(('.pdf', '.png', '.jpg', '.jpeg'))
ALLOWED_EXTENSIONS ==
    { <<".","p","d","f">>, <<".","p","n","g">>, <<".","j","p","g">>, <<".","j","p","e","g">> }


\* ------------------------------------------------- remote classifier values
\* Seq(S) bounded by n
SeqsUpTo(S, n) == UNION { [1..k -> S] : k \in 0..n }

\* label strings a remote body may carry: two members of the label set and
\* the empty string (which is outside it)
RemoteLabels ==
    { DOCUMENT_TYPES[1], DOCUMENT_TYPES[2], <<>> }

\* scores a remote body may carry, in units of 10^-5:
\* -0.2, 0.12345 (a last digit of 5, whose float lies above it), 0.91006
\* and 1.5
RemoteScores == { -20000, 12345, 91006, 150000 }

\* decoded JSON bodies: an object whose 'labels' and 'scores' keys are each
\* absent or a list
JsonBodies ==
    { [json |-> TRUE, has_labels |-> hl, labels |-> l, has_scores |-> hs, scores |-> s] :
        hl \in BOOLEAN, l \in SeqsUpTo(RemoteLabels, MaxSeqLen),
        hs \in BOOLEAN, s \in SeqsUpTo(RemoteScores, MaxSeqLen) }

EmptyBody ==
    [json |-> FALSE, has_labels |-> FALSE, labels |-> <<>>, has_scores |-> FALSE, scores |-> <<>>]

Bodies ==
    { b \in JsonBodies : (~b.has_labels => b.labels = <<>>) /\ (~b.has_scores => b.scores = <<>>) }
    \cup { EmptyBody }

\* HTTP statuses of the remote endpoint: raise_for_status() raises for
\* 400..599 only
ErrorStatuses == { 500, 503 }
PassStatuses == { 200, 201 }

\* exceptions requests.post itself raises (no response attached)
NetworkErrors == { "ConnectionError" }

\* what one requests.post call can do
RemoteOutcomes ==
    { [kind |-> "exception", exc |-> e, status |-> 0, body |-> EmptyBody] : e \in NetworkErrors }
    \cup { [kind |-> "response", exc |-> "none", status |-> st, body |-> EmptyBody] : st \in ErrorStatuses }
    \cup { [kind |-> "response", exc |-> "none", status |-> st, body |-> b] :
             st \in PassStatuses, b \in Bodies }

\* ------------------------------------------------------------- exceptions
\* requests.exceptions.RequestException and its subclasses
RequestExceptionClasses == { "HTTPError", "ConnectionError", "Timeout", "JSONDecodeError" }

Exc(cls, has_response, status) ==
    [cls |-> cls, has_response |-> has_response, status |-> status]

NoExc == Exc("none", FALSE, 0)

\* ---------------------------------------------------- classifier_service.py
\* should_retry_exception(exception)
should_retry_exception(e) ==
    IF e.cls \in RequestExceptionClasses
    THEN IF e.has_response /\ e.status = 503 THEN FALSE ELSE TRUE
    ELSE TRUE

\* retry=retry_if(lambda e: isinstance(e, RequestException) and should_retry_exception(e))
retry_predicate(e) ==
    e.cls \in RequestExceptionClasses /\ should_retry_exception(e)

\* a stop condition that allows one attempt more
stop_after_attempt_late(attempt_number) == attempt_number >= MaxAttempts + 1

\* stop=stop_after_attempt(2)
stop_after_attempt(attempt_number) == attempt_number >= MaxAttempts

Pow2(n) == IF n <= 0 THEN 1 ELSE 2^n
MinOf(a, b) == IF a <= b THEN a ELSE b
MaxOf(a, b) == IF a >= b THEN a ELSE b

\* wait=wait_exponential(multiplier=1, min=4, max=10)
wait_exponential(attempt_number) ==
    LET exp == Pow2(attempt_number - 1)
        result == WaitMultiplier * exp
    IN  MaxOf(MaxOf(0, WaitMin), MinOf(result, WaitMax))

\* the payload text left as long as it is
limited_text_whole(text) == text

\* text[:5000] if len(text) > 5000 else text
limited_text(text) ==
    IF Len(text) > MaxTextLen THEN SubSeq(text, 1, MaxTextLen) ELSE text

\* max(scores)
MaxScore(scores) ==
    CHOOSE m \in { scores[i] : i \in 1..Len(scores) } :
        \A i \in 1..Len(scores) : scores[i] <= m

\* the last position holding v
IndexOfLast(scores, v) ==
    CHOOSE i \in 1..Len(scores) :
        scores[i] = v /\ \A j \in (i + 1)..Len(scores) : scores[j] # v

\* scores.index(v): the first position holding v (1-based here)
IndexOf(scores, v) ==
    CHOOSE i \in 1..Len(scores) :
        scores[i] = v /\ \A j \in 1..(i - 1) : scores[j] # v

\* The score is a binary float: the double nearest to a / 10^5, which is
\* m / 2^e with 2^52 <= m < 2^53.  ScaleUp and ScaleDown give e - 52.
RECURSIVE ScaleUp(_)
ScaleUp(a) == IF a >= ScoreUnit THEN 0 ELSE 1 + ScaleUp(2 * a)

RECURSIVE ScaleDown(_)
ScaleDown(a) == IF a < 2 * ScoreUnit THEN 0 ELSE 1 + ScaleDown(a \div 2)

\* (r * 2^n) mod 10^5
RECURSIVE DoubleMod(_, _)
DoubleMod(r, n) == IF n <= 0 THEN r ELSE DoubleMod((2 * r) % ScoreUnit, n - 1)

\* where the float of a / 10^5 (a > 0) lies: 1 above the decimal value, -1
\* below it, 0 when the decimal value is itself a float (a multiple of 5^5)
FloatDrift(a) ==
    IF a % (ScoreUnit \div 32) = 0 THEN 0
    ELSE LET e == 52 + ScaleUp(a) - ScaleDown(a)
         IN  IF 2 * DoubleMod(a % ScoreUnit, e) > ScoreUnit THEN 1 ELSE -1

\* round(x, 4) on a value in units of 10^-5.  Python rounds the float
\* correctly: a last digit of 5 goes the way the float lies from the decimal
\* value, and to the even 4th digit only when the float is that value.
Round4(x) ==
    LET a == IF x < 0 THEN -x ELSE x
        q == a \div RoundStep
        rem == a % RoundStep
        down == q * RoundStep
        up == (q + 1) * RoundStep
        c == IF 2 * rem < RoundStep THEN down
             ELSE IF 2 * rem > RoundStep THEN up
             ELSE IF FloatDrift(a) > 0 THEN up
             ELSE IF FloatDrift(a) < 0 THEN down
             ELSE IF q % 2 = 0 THEN down ELSE up
    IN  IF x < 0 THEN -c ELSE c

\* top_label_index (1-based here)
top_label_index(body) ==
    IF body.has_scores /\ Len(body.scores) > 0
    THEN IndexOf(body.scores, MaxScore(body.scores))
    ELSE 1

\* the dict of the (KeyError, IndexError) handler
ParseError ==
    [label |-> ParseErrorLabel, confidence |-> 0, status |-> "parse_error", error |-> "IndexError"]

\* the inner try of classify_document: the result dict, or the
\* (KeyError, IndexError) handler's dict
parse_response(body) ==
    LET i == top_label_index(body)
        label_raises == body.has_labels /\ i > Len(body.labels)
        conf_raises == body.has_scores /\ i > Len(body.scores)
    IN  IF label_raises \/ conf_raises
        THEN ParseError
        ELSE [label |-> IF body.has_labels THEN body.labels[i] ELSE DOCUMENT_TYPES[1],
              confidence |-> IF body.has_scores THEN Round4(body.scores[i]) ELSE 0,
              status |-> "success",
              error |-> "none"]

NoClassification ==
    [label |-> <<>>, confidence |-> 0, status |-> "none", error |-> "none"]

Return(value) == [kind |-> "return", value |-> value, exc |-> NoExc]
Raise(e) == [kind |-> "raise", value |-> NoClassification, exc |-> e]

\* except requests.exceptions.RequestException as e: (lines 109-116)
handle_request_exception(e) ==
    IF e.has_response /\ e.status = 503
    THEN Raise(Exc("RuntimeError_unavailable", FALSE, 0))
    ELSE Raise(e)

\* response.raise_for_status() raises
raise_for_status_raises(status) == status >= 400 /\ status < 600

\* one attempt of classify_document from requests.post on (lines 69-116)
classify_attempt(o) ==
    IF o.kind = "exception"
    THEN handle_request_exception(Exc(o.exc, FALSE, 0))
    ELSE IF o.status = 503
    THEN Raise(Exc("RuntimeError_unavailable", FALSE, 0))
    ELSE IF o.status # 200 /\ raise_for_status_raises(o.status)
    THEN handle_request_exception(Exc("HTTPError", TRUE, o.status))
    ELSE IF ~o.body.json
    THEN handle_request_exception(Exc("JSONDecodeError", FALSE, 0))
    ELSE Return(parse_response(o.body))

\* ------------------------------------------------------- spaces_service.py
\* a safe_type that leaves the spaces in
safe_type_spaces_kept(doc_type) == Lower(doc_type)

\* safe_type = doc_type.replace(" ", "_").lower()
safe_type(doc_type) == Lower(ReplaceSpaces(doc_type))

\* key = f"patients/{patient_id}/{safe_type}/{filename}"
storage_key(patient_id, doc_type, filename) ==
    <<"p","a","t","i","e","n","t","s">> \o Slash \o patient_id \o Slash
        \o safe_type(doc_type) \o Slash \o filename

\* os.getenv('SPACES_ENDPOINT'), os.getenv('BUCKET_NAME')
SPACES_ENDPOINT == <<"S">>
BUCKET_NAME == <<"B">>

\* f"{os.getenv('SPACES_ENDPOINT')}/{os.getenv('BUCKET_NAME')}/{key}"
s3_path_of(key) == SPACES_ENDPOINT \o Slash \o BUCKET_NAME \o Slash \o key

\* ------------------------------------------------------------------ main.py
\* the check without .lower()
valid_file_type_case_sensitive(filename) ==
    \E ext \in ALLOWED_EXTENSIONS : EndsWith(filename, ext)

\* file.filename.lower().endswith(('.pdf', '.png', '.jpg', '.jpeg'))
valid_file_type(filename) ==
    \E ext \in ALLOWED_EXTENSIONS : EndsWith(Lower(filename), ext)

\* the RetryError handler's classification
FallbackClassification ==
    [label |-> FallbackLabel, confidence |-> 0, status |-> "fallback_used", error |-> "none"]

\* ------------------------------------------------------------ request inputs
Requests == 1..NumRequests

Upload(f, p, c) == [filename |-> f, patient_id |-> p, contents |-> c]

\* the multipart bodies posted to /classify: accepted and rejected file names
Uploads ==
    { Upload(<<"a",".","p","d","f">>, <<"7">>, "bytes1"),
      Upload(<<"A",".","P","D","F">>, <<"7","/","a">>, "bytes2"),
      Upload(<<".","p","n","g">>, <<"7">>, "bytes2"),
      Upload(<<"s",".","J","p","g">>, <<"7","/","a">>, "bytes1"),
      Upload(<<"r",".","j","p","e","g">>, <<"7">>, "bytes1"),
      Upload(<<"x",".","d","o","c","x">>, <<"7">>, "bytes1"),
      Upload(<<"p","d","f">>, <<"7">>, "bytes2"),
      Upload(<<"a",".","p","d","f"," ">>, <<"7">>, "bytes1"),
      Upload(<<"a",".","p","d","f",".","t","x","t">>, <<"7","/","a">>, "bytes1"),
      Upload(<<"a",".","j","p","e">>, <<"7">>, "bytes1"),
      Upload(<<>>, <<"7">>, "bytes1") }

NoUpload == Upload(<<>>, <<>>, "none")

\* what OCR can return
Texts == { <<>>, <<"u","s">> }

\* ---------------------------------------------------------------- state
VARIABLES
    loaded,         \* whether importing main.py (and classifier_service) succeeded
    cfg,            \* HF_API_URL and HF_API_TOKEN set or not (process-wide)
    running,        \* the request the event-loop thread is executing, 0 if none
    pc,             \* each request's position in classify_endpoint
    filename,       \* file.filename
    patient_id,     \* patient_id form field
    contents,       \* the uploaded bytes
    extractions,    \* extract_text calls made so far
    extract_result, \* how extract_text ended: "none", "ok" or "failed"
    extracted_text, \* extract_text's result
    attempt_number, \* tenacity's retry_state.attempt_number
    calls,          \* requests.post calls made so far
    sent,           \* payload["inputs"] of each call
    waits,          \* the sleeps tenacity made between attempts
    last_attempt,   \* the last finished attempt: what the remote did, what the attempt gave
    decisions,      \* tenacity's decision after each finished attempt
    retry_error,    \* the exception a raised RetryError carries (last_attempt)
    classification, \* the classification dict of classify_endpoint
    puts,           \* put_object calls made so far
    put_key,        \* Key of the put_object call
    put_result,     \* how the put_object call ended: "none", "ok" or "failed"
    bucket,         \* the object store: a set of [key, body]
    response        \* the HTTP response of the request

vars ==
    << loaded, cfg, running, pc, filename, patient_id, contents, extractions,
       extract_result, extracted_text, attempt_number, calls, sent, waits, last_attempt,
       decisions, retry_error, classification, puts, put_key, put_result,
       bucket, response >>

NoResponse ==
    [code |-> 0, detail |-> "none", patient_id |-> <<>>,
     classification |-> NoClassification, s3_path |-> <<>>, status |-> "none"]

\* raise HTTPException(code, detail=...)
HttpError(code, detail) ==
    [code |-> code, detail |-> detail, patient_id |-> <<>>,
     classification |-> NoClassification, s3_path |-> <<>>, status |-> "error"]

\* return {"patient_id": ..., "classification": ..., "s3_path": ..., "status": "processed"}
Processed(pid, c, path) ==
    [code |-> 200, detail |-> "none", patient_id |-> pid,
     classification |-> c, s3_path |-> path, status |-> "processed"]

\* except Exception as e: raise HTTPException(500, detail=f"Document processing failed: {str(e)}")
detail_of(e) ==
    CASE e.cls = "RuntimeError_url" -> "HF API URL not configured"
      [] e.cls = "RuntimeError_token" -> "HF API token not configured"
      [] e.cls = "RuntimeError_unavailable" -> "Hugging Face API is currently unavailable (503)"
      [] e.cls = "RuntimeError_extraction" -> "Text extraction failed"
      [] e.cls = "RuntimeError_storage" -> "Spaces upload failed"
      [] OTHER -> e.cls

NoAttempt ==
    [remote |-> [kind |-> "none", exc |-> "none", status |-> 0, body |-> EmptyBody],
     result |-> [kind |-> "none", value |-> NoClassification, exc |-> NoExc]]

\* `from tenacity import ..., retry_if, ...` (classifier_service.py line 5):
\* tenacity exports no name retry_if, so the import raises ImportError and the
\* application is not loaded (FALSE); it is loaded (TRUE) only where the
\* environment supplies retry_if, read as retry_if_exception
Imports == BOOLEAN

\* the requests in `active` have arrived, each with an upload of `uploads`;
\* the process environment is one of `cfgs`
InitFrom(active, uploads, cfgs) ==
    /\ loaded \in Imports
    /\ cfg \in cfgs
    /\ running = 0
    /\ pc = [r \in Requests |-> IF r \in active THEN "received" ELSE "absent"]
    /\ \E u \in [Requests -> uploads \cup {NoUpload}] :
          /\ \A r \in Requests : (u[r] = NoUpload) <=> (r \notin active)
          /\ filename = [r \in Requests |-> u[r].filename]
          /\ patient_id = [r \in Requests |-> u[r].patient_id]
          /\ contents = [r \in Requests |-> u[r].contents]
    /\ extractions = [r \in Requests |-> 0]
    /\ extract_result = [r \in Requests |-> "none"]
    /\ extracted_text = [r \in Requests |-> <<>>]
    /\ attempt_number = [r \in Requests |-> 0]
    /\ calls = [r \in Requests |-> 0]
    /\ sent = [r \in Requests |-> <<>>]
    /\ waits = [r \in Requests |-> <<>>]
    /\ last_attempt = [r \in Requests |-> NoAttempt]
    /\ decisions = [r \in Requests |-> <<>>]
    /\ retry_error = [r \in Requests |-> NoExc]
    /\ classification = [r \in Requests |-> NoClassification]
    /\ puts = [r \in Requests |-> 0]
    /\ put_key = [r \in Requests |-> <<>>]
    /\ put_result = [r \in Requests |-> "none"]
    /\ bucket = {}
    /\ response = [r \in Requests |-> NoResponse]

\* the settings of the environment: MODEL_ENDPOINT and HF_API_TOKEN set or not
Configs == [url : BOOLEAN, token : BOOLEAN]

InitWith(active) == InitFrom(active, Uploads, Configs)

\* one request is posted to /classify
Init == InitWith({1})

\* ---------------------------------------------------------------- actions
\* the request ends with an HTTP response; the event loop is free again
Finish(r, resp) ==
    /\ response' = [response EXCEPT ![r] = resp]
    /\ pc' = [pc EXCEPT ![r] = "done"]
    /\ running' = 0

\* an exception reaches `except Exception` of classify_endpoint
Fail500(r, e) == Finish(r, HttpError(500, detail_of(e)))

\* tenacity after one attempt: hand back the value, re-raise an exception the
\* predicate does not retry, raise RetryError when the attempts are used up,
\* or sleep and try again
retry_decision(n, res) ==
    IF res.kind = "return" THEN "return"
    ELSE IF ~retry_predicate(res.exc) THEN "reraise"
    ELSE IF stop_after_attempt(n) THEN "retry_error"
    ELSE "sleep"

\* classification.get('label', 'unclassified')
classification_label(c) ==
    IF "label" \in DOMAIN c THEN c.label ELSE DefaultDocType

\* the variables of the process and of the upload, which no step changes
upload_vars == << loaded, cfg, filename, patient_id, contents >>
\* the variables of the extraction step
extract_vars == << extractions, extract_result, extracted_text >>
\* the variables of the classification step
classify_vars ==
    << attempt_number, calls, sent, waits, last_attempt, decisions, retry_error,
       classification >>
\* the variables of the storage step
store_vars == << puts, put_key, put_result, bucket >>

\* classify_endpoint, step 1: validate the file type, then await file.read()
Validate(r) ==
    /\ loaded
    /\ pc[r] = "received"
    /\ running = 0
    /\ IF ~valid_file_type(filename[r])
       THEN Finish(r, HttpError(400, "Invalid file type. Only PDF/JPEG/PNG allowed"))
       ELSE /\ pc' = [pc EXCEPT ![r] = "read"]
            /\ UNCHANGED << running, response >>
    /\ UNCHANGED << upload_vars, extract_vars, classify_vars, store_vars >>

\* classify_endpoint, step 2: extract_text returns the text; classify_document
\* is entered without a suspension in between
ExtractOkFrom(r, texts) ==
    /\ pc[r] = "read"
    /\ running = 0
    /\ extractions' = [extractions EXCEPT ![r] = @ + 1]
    /\ extract_result' = [extract_result EXCEPT ![r] = "ok"]
    /\ \E t \in texts : extracted_text' = [extracted_text EXCEPT ![r] = t]
    /\ attempt_number' = [attempt_number EXCEPT ![r] = 1]
    /\ pc' = [pc EXCEPT ![r] = "classify"]
    /\ running' = r
    /\ UNCHANGED << upload_vars, calls, sent, waits, last_attempt, decisions,
                    retry_error, classification, store_vars, response >>

ExtractOk(r) == ExtractOkFrom(r, Texts)

\* a handler that swallows the extraction error and goes on with no text
ExtractFailSwallow(r) ==
    /\ pc[r] = "read"
    /\ running = 0
    /\ extractions' = [extractions EXCEPT ![r] = @ + 1]
    /\ extract_result' = [extract_result EXCEPT ![r] = "failed"]
    /\ attempt_number' = [attempt_number EXCEPT ![r] = 1]
    /\ pc' = [pc EXCEPT ![r] = "classify"]
    /\ running' = r
    /\ UNCHANGED << upload_vars, extracted_text, calls, sent, waits, last_attempt,
                    decisions, retry_error, classification, store_vars, response >>

\* extract_text raises RuntimeError("Text extraction failed: ...")
ExtractFail(r) ==
    /\ pc[r] = "read"
    /\ running = 0
    /\ extractions' = [extractions EXCEPT ![r] = @ + 1]
    /\ extract_result' = [extract_result EXCEPT ![r] = "failed"]
    /\ Fail500(r, Exc("RuntimeError_extraction", FALSE, 0))
    /\ UNCHANGED << upload_vars, extracted_text, classify_vars, store_vars >>

\* configuration checks that forget the token
config_error_url_only(c) ==
    IF ~c.url THEN Exc("RuntimeError_url", FALSE, 0) ELSE NoExc

\* the configuration checks of classify_document (lines 38-45): the exception
\* they raise, NoExc if none
config_error(c) ==
    IF ~c.url THEN Exc("RuntimeError_url", FALSE, 0)
    ELSE IF ~c.token THEN Exc("RuntimeError_token", FALSE, 0)
    ELSE NoExc

\* an attempt of classify_document has ended with `res` (the remote did `o`):
\* tenacity's decision, then classify_endpoint's handlers; before it sleeps
\* tenacity prepares the next attempt (attempt_number + 1)
AttemptDone(r, o, res) ==
    LET decision == retry_decision(attempt_number[r], res)
    IN  /\ last_attempt' = [last_attempt EXCEPT ![r] = [remote |-> o, result |-> res]]
        /\ decisions' = [decisions EXCEPT ![r] = Append(@, decision)]
        /\ CASE decision = "return" ->
                  /\ classification' = [classification EXCEPT ![r] = res.value]
                  /\ pc' = [pc EXCEPT ![r] = "store"]
                  /\ UNCHANGED << running, response, waits, retry_error, attempt_number >>
             [] decision = "retry_error" ->
                  /\ retry_error' = [retry_error EXCEPT ![r] = res.exc]
                  /\ classification' = [classification EXCEPT ![r] = FallbackClassification]
                  /\ pc' = [pc EXCEPT ![r] = "store"]
                  /\ UNCHANGED << running, response, waits, attempt_number >>
             [] decision = "sleep" ->
                  /\ waits' = [waits EXCEPT ![r] = Append(@, wait_exponential(attempt_number[r]))]
                  /\ attempt_number' = [attempt_number EXCEPT ![r] = @ + 1]
                  /\ pc' = [pc EXCEPT ![r] = "wait"]
                  /\ running' = 0
                  /\ UNCHANGED << response, classification, retry_error >>
             [] decision = "reraise" ->
                  /\ Fail500(r, res.exc)
                  /\ UNCHANGED << waits, classification, retry_error, attempt_number >>

\* a call count kept once for the process: a call of one request counts for
\* every request
BeginAttemptShared(r) ==
    /\ pc[r] = "classify"
    /\ running = r
    /\ IF config_error(cfg) # NoExc
       THEN /\ AttemptDone(r, NoAttempt.remote, Raise(config_error(cfg)))
            /\ UNCHANGED << calls, sent >>
       ELSE /\ calls' = [q \in Requests |-> calls[q] + 1]
            /\ sent' = [sent EXCEPT ![r] = Append(@, limited_text(extracted_text[r]))]
            /\ pc' = [pc EXCEPT ![r] = "calling"]
            /\ UNCHANGED << running, response, attempt_number, waits, last_attempt,
                            decisions, retry_error, classification >>
    /\ UNCHANGED << upload_vars, extract_vars, store_vars >>

\* one attempt of classify_document up to requests.post; a configuration
\* error ends the attempt with a RuntimeError before anything is sent
BeginAttempt(r) ==
    /\ pc[r] = "classify"
    /\ running = r
    /\ IF config_error(cfg) # NoExc
       THEN /\ AttemptDone(r, NoAttempt.remote, Raise(config_error(cfg)))
            /\ UNCHANGED << calls, sent >>
       ELSE /\ calls' = [calls EXCEPT ![r] = @ + 1]
            /\ sent' = [sent EXCEPT ![r] = Append(@, limited_text(extracted_text[r]))]
            /\ pc' = [pc EXCEPT ![r] = "calling"]
            /\ UNCHANGED << running, response, attempt_number, waits, last_attempt,
                            decisions, retry_error, classification >>
    /\ UNCHANGED << upload_vars, extract_vars, store_vars >>

\* requests.post comes back with one of `outcomes` (the event loop was blocked
\* meanwhile); the rest of the attempt
CallReturnFrom(r, outcomes) ==
    /\ pc[r] = "calling"
    /\ running = r
    /\ \E o \in outcomes : AttemptDone(r, o, classify_attempt(o))
    /\ UNCHANGED << upload_vars, extract_vars, calls, sent, store_vars >>

CallReturn(r) == CallReturnFrom(r, RemoteOutcomes)

\* tenacity's sleep is over: the next attempt
Wake(r) ==
    /\ pc[r] = "wait"
    /\ running = 0
    /\ pc' = [pc EXCEPT ![r] = "classify"]
    /\ running' = r
    /\ UNCHANGED << upload_vars, extract_vars, classify_vars, store_vars, response >>

\* a handler that starts the storage write without awaiting the classification
StoreStartEarly(r) ==
    /\ pc[r] \in { "classify", "store" }
    /\ running = r
    /\ puts' = [puts EXCEPT ![r] = @ + 1]
    /\ put_key' = [put_key EXCEPT ![r] =
           storage_key(patient_id[r], classification_label(classification[r]), filename[r])]
    /\ pc' = [pc EXCEPT ![r] = "storing"]
    /\ UNCHANGED << upload_vars, running, extract_vars, classify_vars,
                    put_result, bucket, response >>

\* store_document up to client.put_object
StoreStart(r) ==
    /\ pc[r] = "store"
    /\ running = r
    /\ puts' = [puts EXCEPT ![r] = @ + 1]
    /\ put_key' = [put_key EXCEPT ![r] =
           storage_key(patient_id[r], classification_label(classification[r]), filename[r])]
    /\ pc' = [pc EXCEPT ![r] = "storing"]
    /\ UNCHANGED << upload_vars, running, extract_vars, classify_vars,
                    put_result, bucket, response >>

\* a store_document that swallows the upload error
store_document_result_swallow(put_ok, key) ==
    [kind |-> "return", path |-> s3_path_of(key), exc |-> NoExc]

\* store_document after client.put_object: the location, or the RuntimeError
\* made of a ClientError
store_document_result(put_ok, key) ==
    IF put_ok
    THEN [kind |-> "return", path |-> s3_path_of(key), exc |-> NoExc]
    ELSE [kind |-> "raise", path |-> <<>>, exc |-> Exc("RuntimeError_storage", FALSE, 0)]

\* classify_endpoint after `await store_document(...)`: the processed record,
\* or `except Exception`
AfterStore(r, res) ==
    IF res.kind = "return"
    THEN Finish(r, Processed(patient_id[r], classification[r], res.path))
    ELSE Fail500(r, res.exc)

\* put_object succeeded: the object is in the bucket (overwriting the key) and
\* classify_endpoint returns the processed record
StoreOk(r) ==
    /\ pc[r] = "storing"
    /\ running = r
    /\ bucket' = { o \in bucket : o.key # put_key[r] }
                    \cup { [key |-> put_key[r], body |-> contents[r]] }
    /\ put_result' = [put_result EXCEPT ![r] = "ok"]
    /\ AfterStore(r, store_document_result(TRUE, put_key[r]))
    /\ UNCHANGED << upload_vars, extract_vars, classify_vars, puts, put_key >>

\* put_object raised ClientError: RuntimeError("Spaces upload failed: ...")
StoreFail(r) ==
    /\ pc[r] = "storing"
    /\ running = r
    /\ put_result' = [put_result EXCEPT ![r] = "failed"]
    /\ AfterStore(r, store_document_result(FALSE, put_key[r]))
    /\ UNCHANGED << upload_vars, extract_vars, classify_vars, puts,
                    put_key, bucket >>

Next ==
    \E r \in Requests :
        \/ Validate(r)
        \/ ExtractOk(r)
        \/ ExtractFail(r)
        \/ BeginAttempt(r)
        \/ CallReturn(r)
        \/ Wake(r)
        \/ StoreStart(r)
        \/ StoreOk(r)
        \/ StoreFail(r)

Spec == Init /\ [][Next]_vars

\* ------------------------------------------------- concurrent requests
\* Several requests are served by the one event loop of the process.  The
\* inputs are a part of those of Spec: uploads whose patient id or file name
\* contains the path separator, one text, and one remote outcome of each kind.
ConcActive == Requests

ConcUploads ==
    { Upload(<<"f",".","p","d","f">>, <<"7">> \o Slash \o safe_type(ParseErrorLabel), "bytes1"),
      Upload(safe_type(ParseErrorLabel) \o Slash \o <<"f",".","p","d","f">>, <<"7">>, "bytes2") }

ConcConfigs == { c \in Configs : c.url /\ c.token }

ConcTexts == { <<"u","s">> }

\* a label the remote side returns in its own spelling
ConcLabels == { DOCUMENT_TYPES[1], <<"L","a","b"," ","R">> }

ConcBodies ==
    { [json |-> TRUE, has_labels |-> TRUE, labels |-> <<>>, has_scores |-> TRUE, scores |-> <<>>] }
    \cup { [json |-> TRUE, has_labels |-> TRUE, labels |-> << l >>,
            has_scores |-> TRUE, scores |-> << 91006 >>] : l \in ConcLabels }

ConcOutcomes ==
    { [kind |-> "exception", exc |-> e, status |-> 0, body |-> EmptyBody] : e \in NetworkErrors }
    \cup { [kind |-> "response", exc |-> "none", status |-> 503, body |-> EmptyBody] }
    \cup { [kind |-> "response", exc |-> "none", status |-> 200, body |-> b] : b \in ConcBodies }

InitConc == InitFrom(ConcActive, ConcUploads, ConcConfigs)

ConcExtractOk(r) == ExtractOkFrom(r, ConcTexts)

ConcCallReturn(r) == CallReturnFrom(r, ConcOutcomes)

\* the steps request r can take
StepOf(r) ==
    \/ Validate(r)
    \/ ConcExtractOk(r)
    \/ ExtractFail(r)
    \/ BeginAttempt(r)
    \/ ConcCallReturn(r)
    \/ Wake(r)
    \/ StoreStart(r)
    \/ StoreOk(r)
    \/ StoreFail(r)

NextConc == \E r \in Requests : StepOf(r)

SpecConc == InitConc /\ [][NextConc]_vars

\* ------------------------------------------------- long extracted texts
\* One request whose extracted text is empty or of a length around the
\* 5000-character limit of the payload; the characters differ by position.
LongText(n) == [i \in 1..n |-> LowerAlpha[(i % Len(LowerAlpha)) + 1]]

TruncLengths == { 0 } \cup ((MaxTextLen - MaxExcess)..(MaxTextLen + MaxExcess))

TruncTexts == { LongText(n) : n \in TruncLengths }

TruncUploads == { u \in Uploads : u.filename = <<"a",".","p","d","f">> }

InitTrunc == InitFrom({1}, TruncUploads, ConcConfigs)

TruncExtractOk(r) == ExtractOkFrom(r, TruncTexts)

NextTrunc ==
    \E r \in Requests :
        \/ Validate(r)
        \/ TruncExtractOk(r)
        \/ ExtractFail(r)
        \/ BeginAttempt(r)
        \/ ConcCallReturn(r)
        \/ Wake(r)
        \/ StoreStart(r)
        \/ StoreOk(r)
        \/ StoreFail(r)

SpecTrunc == InitTrunc /\ [][NextTrunc]_vars

\* ------------------------------------------------------------ properties
\* The failure categories of the remote call, read off what the remote did.
\* Unavailable: the capacity status.
Unavailable(o) == o.kind = "response" /\ o.status = 503

\* Transient: a network failure or any other HTTP error status.
TransientFailure(o) ==
    \/ o.kind = "exception"
    \/ o.kind = "response" /\ o.status # 503 /\ o.status >= 400

\* a decoded body with both fields, of equal length >= 1
WellFormed(b) ==
    /\ b.json /\ b.has_labels /\ b.has_scores
    /\ Len(b.labels) = Len(b.scores)
    /\ Len(b.labels) >= 1

\* a decoded body lacking a field, or with sequences of different lengths
MissingOrUnequal(b) ==
    /\ b.json
    /\ \/ ~b.has_labels
       \/ ~b.has_scores
       \/ Len(b.labels) # Len(b.scores)

\* MalformedResponse: status 200 and a body without the expected fields,
\* whether it cannot be decoded at all or decodes to something not well-formed
Malformed(o) ==
    o.kind = "response" /\ o.status = 200 /\ ~WellFormed(o.body)

ResultStatuses == { "success", "fallback_used", "parse_error" }

LabelSet == { DOCUMENT_TYPES[i] : i \in 1..Len(DOCUMENT_TYPES) }

ExtractionSucceeded(r) == extractions[r] = 1 /\ attempt_number[r] >= 1

LastDecision(r) ==
    IF decisions[r] = <<>> THEN "none" ELSE decisions[r][Len(decisions[r])]

\* C1: once extraction has succeeded, a finished request has a classification
\* result (label, confidence, status), its storage write was made, and the
\* only HTTP error it can end with is the storage failure: no classifier
\* outcome ends it with an error.  (Stated for a configured classifier, the
\* weaker half of "whatever the configuration is".)
C1_ClassificationNeverAborts ==
    \A r \in Requests :
        (pc[r] = "done" /\ ExtractionSucceeded(r) /\ cfg.url /\ cfg.token) =>
            /\ classification[r].status \in ResultStatuses
            /\ puts[r] = 1
            /\ response[r].code = 200 \/ put_result[r] = "failed"

\* C2: a finished request whose remote call ended in Unavailable (503) or in
\* RetriesExhausted has exactly the fallback classification, its document was
\* put, and (the put succeeding) its response is the 200 "processed" record
\* carrying that classification.
C2_UnavailableOrExhaustedFallsBack ==
    \A r \in Requests :
        (pc[r] = "done"
           /\ (Unavailable(last_attempt[r].remote) \/ LastDecision(r) = "retry_error")) =>
            /\ classification[r] = FallbackClassification
            /\ puts[r] = 1
            /\ put_result[r] = "ok" =>
                 /\ response[r].code = 200
                 /\ response[r].status = "processed"
                 /\ response[r].classification = FallbackClassification

\* C3: a further attempt is scheduled or made only after a Transient failure;
\* after an attempt that ended in Unavailable or in a MalformedResponse no
\* further call is made (one call in all when it was the first attempt), no
\* wait follows, and the outcome is surfaced at once (the error re-raised, the
\* parsed result returned).
C3_RetryOnlyAfterTransient ==
    \A r \in Requests :
        /\ (pc[r] = "wait" \/ (calls[r] > Len(decisions[r]) /\ calls[r] > 1)) =>
              TransientFailure(last_attempt[r].remote)
        /\ (Unavailable(last_attempt[r].remote) \/ Malformed(last_attempt[r].remote)) =>
              /\ pc[r] \in {"store", "storing", "done"}
              /\ calls[r] = Len(decisions[r])
              /\ Len(waits[r]) = calls[r] - 1
              /\ attempt_number[r] = 1 => calls[r] = 1
              /\ LastDecision(r) \in {"return", "reraise"}

\* whether a sequence of numbers never decreases
NonDecreasing(s) == \A i \in 1..(Len(s) - 1) : s[i] <= s[i + 1]

\* C4: the backoff never decreases from one attempt to the next and stays
\* within [min, max]; when the attempts of a request all fail with a Transient
\* failure, exactly MaxAttempts calls are made, the waits between them are
\* non-decreasing and within [4, 10], and a RetryError carrying the last
\* attempt's error is raised, which classify_endpoint turns into fallback_used.
C4_TransientExhaustsAttempts ==
    /\ \A n \in 1..WaitProbe :
          /\ wait_exponential(n) <= wait_exponential(n + 1)
          /\ wait_exponential(n) >= 4
          /\ wait_exponential(n) <= 10
    /\ \A r \in Requests :
          /\ (Len(decisions[r]) = 2 /\ TransientFailure(last_attempt[r].remote)) =>
                decisions[r] = <<"sleep", "retry_error">>
          /\ (Len(decisions[r]) = 1 /\ TransientFailure(last_attempt[r].remote)) =>
                decisions[r] = <<"sleep">> /\ retry_error[r] = NoExc
          /\ Len(decisions[r]) <= 2
          /\ LastDecision(r) = "retry_error" =>
                /\ calls[r] = 2
                /\ Len(waits[r]) = 1
                /\ NonDecreasing(waits[r])
                /\ \A i \in 1..Len(waits[r]) : waits[r][i] >= 4 /\ waits[r][i] <= 10
                /\ retry_error[r] = last_attempt[r].result.exc
                /\ retry_error[r].cls \in RequestExceptionClasses
                /\ classification[r] = FallbackClassification
                /\ pc[r] \in {"store", "storing", "done"}

C4_Witness ==
    \E r \in Requests :
        /\ LastDecision(r) = "retry_error"
        /\ calls[r] = 2
        /\ waits[r] = <<4>>
        /\ classification[r].status = "fallback_used"

\* c is x rounded to 4 decimal places (both in units of 10^-5)
IsRounded4(x, c) ==
    /\ c % 10 = 0
    /\ 2 * (c - x) <= 10
    /\ 2 * (x - c) <= 10

\* C5: for a 200 response with label and score sequences of equal length >= 1
\* the attempt returns status success, the label at the first index of the
\* maximum score, and that score rounded to 4 decimal places; this is the
\* request's classification.
C5_ArgmaxSelected ==
    \A r \in Requests :
        LET o == last_attempt[r].remote
            b == o.body
            v == last_attempt[r].result.value
        IN  (o.kind = "response" /\ o.status = 200 /\ WellFormed(b)) =>
              /\ last_attempt[r].result.kind = "return"
              /\ v.status = "success"
              /\ \E i \in 1..Len(b.scores) :
                    /\ \A j \in 1..Len(b.scores) : b.scores[j] <= b.scores[i]
                    /\ \A j \in 1..(i - 1) : b.scores[j] < b.scores[i]
                    /\ v.label = b.labels[i]
                    /\ IsRounded4(b.scores[i], v.confidence)
              /\ classification[r] = v

\* two equal maximal scores with different labels, and a score that rounding changes
C5_Witness ==
    \E r \in Requests :
        LET o == last_attempt[r].remote
        IN  /\ o.kind = "response" /\ o.status = 200 /\ WellFormed(o.body)
            /\ Len(o.body.scores) = 2
            /\ o.body.scores[1] = o.body.scores[2]
            /\ o.body.labels[1] # o.body.labels[2]
            /\ classification[r].status = "success"
            /\ classification[r].label = o.body.labels[1]
            /\ classification[r].confidence # o.body.scores[1]

\* C6: a returned result has status success only for a well-formed response;
\* a 200 response whose decoded body lacks labels, scores or both, or whose
\* sequences differ in length, gives status parse_error, a sentinel label and
\* confidence 0.
C6_SuccessOnlyIfWellFormed ==
    \A r \in Requests :
        LET o == last_attempt[r].remote
            v == last_attempt[r].result.value
        IN  (o.kind = "response" /\ last_attempt[r].result.kind = "return") =>
              /\ v.status = "success" => WellFormed(o.body)
              /\ (o.status = 200 /\ MissingOrUnequal(o.body)) =>
                    /\ v.status = "parse_error"
                    /\ v.label \in {FallbackLabel, ParseErrorLabel}
                    /\ v.confidence = 0

\* a 200 response whose label and score sequences are both present and empty
EmptySequences(o) ==
    /\ o.kind = "response" /\ o.status = 200 /\ o.body.json
    /\ o.body.has_labels /\ o.body.labels = <<>>
    /\ o.body.has_scores /\ o.body.scores = <<>>

\* C7: empty label and score sequences give the fallback sentinel
\* "unclassified document", confidence 0 and status parse_error.
C7_EmptyGivesFallbackSentinel ==
    \A r \in Requests :
        LET v == last_attempt[r].result.value
        IN  EmptySequences(last_attempt[r].remote) =>
              /\ v.label = FallbackLabel
              /\ v.confidence = 0
              /\ v.status = "parse_error"

\* C8: every classification result has a non-empty label that is a member of
\* the label set or a reserved sentinel, a confidence in [0, 1], and, when its
\* status is not success, a sentinel as label and confidence 0.  (The label of
\* the parse-error handler is admitted as a sentinel here; which string it is
\* is C7's subject.)
C8_ResultInvariant ==
    \A r \in Requests :
        classification[r].status # "none" =>
            /\ classification[r].label # <<>>
            /\ classification[r].label \in LabelSet \cup {FallbackLabel, ParseErrorLabel}
            /\ classification[r].confidence >= 0
            /\ classification[r].confidence <= ScoreUnit
            /\ classification[r].status # "success" =>
                  /\ classification[r].label \in {FallbackLabel, ParseErrorLabel}
                  /\ classification[r].confidence = 0

\* the name ends, whatever the case of its letters, in an accepted extension
AcceptedName(f) ==
    \E e \in { <<".","p","d","f">>, <<".","p","n","g">>, <<".","j","p","g">>,
               <<".","j","p","e","g">> } :
        /\ Len(f) >= Len(e)
        /\ \A i \in 1..Len(e) : LowerChar(f[Len(f) - Len(e) + i]) = e[i]

\* C9: once a request is past the file-type check, it was answered 400 exactly
\* when its name has no accepted extension, and then nothing was extracted,
\* no classifier call and no storage write was made for it.
C9_FileTypeValidatedFirst ==
    \A r \in Requests :
        pc[r] \notin {"absent", "received"} =>
            IF AcceptedName(filename[r])
            THEN response[r].code # 400
            ELSE /\ pc[r] = "done"
                 /\ response[r].code = 400
                 /\ extractions[r] = 0
                 /\ attempt_number[r] = 0
                 /\ calls[r] = 0
                 /\ puts[r] = 0
                 /\ \A o \in bucket : o.body # contents[r]

C9_Witness ==
    \E r \in Requests :
        /\ filename[r] = <<"x",".","d","o","c","x">>
        /\ response[r].code = 400
        /\ pc[r] = "done"

\* C10: a failed put ends the request with HTTP 500 and no "processed"
\* record; a "processed" record is returned only after the put of that
\* request's bytes under its key succeeded.
C10_StorageFailureIsFatal ==
    \A r \in Requests :
        /\ put_result[r] = "failed" =>
              /\ pc[r] = "done"
              /\ response[r].code = 500
              /\ response[r].status # "processed"
        /\ response[r].status = "processed" =>
              /\ put_result[r] = "ok"
              /\ puts[r] = 1
              /\ [key |-> put_key[r], body |-> contents[r]] \in bucket

C10_Witness ==
    \E r \in Requests :
        /\ put_result[r] = "failed"
        /\ response[r].code = 500
        /\ classification[r].status = "success"

\* C11: the stages of a request run strictly in sequence.  Text is extracted
\* only from an accepted file; the classifier is called only after extraction
\* has returned the text; the storage write is made only after classification
\* has ended with a result, and never while a classification attempt or a
\* retry wait is pending.
C11_StagesInSequence ==
    \A r \in Requests :
        /\ extractions[r] >= 1 => valid_file_type(filename[r])
        /\ (calls[r] >= 1 \/ decisions[r] # <<>>) => extract_result[r] = "ok"
        /\ puts[r] >= 1 =>
              /\ extract_result[r] = "ok"
              /\ classification[r].status \in ResultStatuses
              /\ LastDecision(r) \in { "return", "retry_error" }
              /\ Len(decisions[r]) = calls[r]
              /\ pc[r] \in { "storing", "done" }
        /\ pc[r] \in { "classify", "calling", "wait" } =>
              puts[r] = 0 /\ put_result[r] = "none"

\* a request that retried, got its classification on the second attempt and
\* then wrote to storage
C11_Witness ==
    \E r \in Requests :
        /\ pc[r] = "done"
        /\ response[r].code = 200
        /\ calls[r] = 2
        /\ waits[r] # <<>>
        /\ puts[r] = 1
        /\ put_result[r] = "ok"

\* C12: a failed text extraction is fatal.  The request ends at once with
\* HTTP 500 carrying the extraction error; the classifier is not called, no
\* classification is made and nothing is written to storage.
C12_ExtractionFailureIsFatal ==
    \A r \in Requests :
        extract_result[r] = "failed" =>
            /\ pc[r] = "done"
            /\ response[r] = HttpError(500, "Text extraction failed")
            /\ attempt_number[r] = 0
            /\ calls[r] = 0
            /\ sent[r] = <<>>
            /\ decisions[r] = <<>>
            /\ classification[r] = NoClassification
            /\ puts[r] = 0
            /\ put_result[r] = "none"

\* a request whose accepted file could not be read by OCR
C12_Witness ==
    \E r \in Requests :
        /\ extract_result[r] = "failed"
        /\ valid_file_type(filename[r])
        /\ extractions[r] = 1
        /\ pc[r] = "done"

\* the (patientId, normalized category, filename) triple of r's storage write
StoreTriple(r) ==
    << patient_id[r], safe_type(classification_label(classification[r])), filename[r] >>

\* C13: no two distinct (patientId, normalized category, filename) triples
\* that requests hand to the storage write give the same storage key, also
\* when a component contains the path separator.
C13_DistinctTriplesDistinctKeys ==
    \A r1, r2 \in Requests :
        ( /\ puts[r1] >= 1
          /\ puts[r2] >= 1
          /\ StoreTriple(r1) # StoreTriple(r2) )
        => put_key[r1] # put_key[r2]

\* the label lowercased, each space replaced by an underscore
NormalizedLabel(label) ==
    [i \in 1..Len(label) |-> IF label[i] = " " THEN "_" ELSE LowerChar(label[i])]

\* patients/{patientId}/{normalizedLabel}/{filename}
KeyOf(pid, label, fname) ==
    <<"p","a","t","i","e","n","t","s","/">> \o pid \o <<"/">>
        \o NormalizedLabel(label) \o <<"/">> \o fname

\* C14: the storage key of a request is
\* patients/{patientId}/{normalizedLabel}/{filename}, the label being the one
\* of the classification returned in the same response, lowercased and with
\* spaces replaced by underscores; the response's location names that key.
\* Storing the same (patientId, label, filename, bytes) twice gives the same
\* key, and the bucket holds one object under it (an overwrite).
C14_KeyFromClassification ==
    /\ \A r \in Requests :
          /\ puts[r] >= 1 =>
                put_key[r] = KeyOf(patient_id[r], classification[r].label, filename[r])
          /\ response[r].code = 200 =>
                /\ response[r].classification = classification[r]
                /\ response[r].s3_path =
                      SPACES_ENDPOINT \o <<"/">> \o BUCKET_NAME \o <<"/">>
                          \o KeyOf(patient_id[r], response[r].classification.label, filename[r])
                /\ \E o \in bucket : o.key = put_key[r]
    /\ \A r1, r2 \in Requests :
          ( /\ puts[r1] >= 1 /\ puts[r2] >= 1
            /\ patient_id[r1] = patient_id[r2]
            /\ classification[r1].label = classification[r2].label
            /\ filename[r1] = filename[r2]
            /\ contents[r1] = contents[r2] )
          => put_key[r1] = put_key[r2]
    /\ \A o1, o2 \in bucket : o1.key = o2.key => o1 = o2

\* two requests stored the same file of the same patient under a label with a
\* space and a capital, and the bucket holds the one object
C14_Witness ==
    \E r1, r2 \in Requests :
        /\ r1 # r2
        /\ response[r1].code = 200 /\ response[r2].code = 200
        /\ patient_id[r1] = patient_id[r2]
        /\ filename[r1] = filename[r2]
        /\ contents[r1] = contents[r2]
        /\ classification[r1].label = classification[r2].label
        /\ \E i \in 1..Len(classification[r1].label) :
              LowerChar(classification[r1].label[i]) # classification[r1].label[i]
        /\ \E i \in 1..Len(classification[r1].label) :
              classification[r1].label[i] = " "
        /\ Cardinality(bucket) = 1

\* C15: the text sent to the classifier on every attempt is the prefix of the
\* extracted text of length min(len(text), 5000): shorter text goes out
\* unchanged, longer text is cut to its first 5000 characters.  Cutting never
\* fails: once the text is extracted, the first attempt reaches its send.
C15_SentTextIsPrefix ==
    \A r \in Requests :
        LET text == extracted_text[r]
            n == IF Len(text) < 5000 THEN Len(text) ELSE 5000
        IN  /\ Len(sent[r]) = calls[r]
            /\ \A i \in 1..Len(sent[r]) :
                  /\ Len(sent[r][i]) = n
                  /\ \A j \in 1..n : sent[r][i][j] = text[j]
            /\ (extract_result[r] = "ok" /\ pc[r] # "classify") => calls[r] >= 1

\* a text longer than the limit went out, cut, on the first attempt and on
\* the retry
C15_Witness ==
    \E r \in Requests :
        /\ Len(extracted_text[r]) > 5000
        /\ calls[r] = 2
        /\ Len(sent[r][1]) = 5000
        /\ Len(sent[r][2]) = 5000

\* r is at a point where its handler can take its next step as soon as the
\* event loop runs it: not yet validated, about to read, or in a retry wait
Suspended(r) == pc[r] \in { "received", "read", "wait" }

\* C16: a request waiting on the classifier network call or on the storage
\* write does not block the other requests: whenever one request is inside
\* either call, every other unfinished request can take its next step.
C16_WaitingDoesNotBlockOthers ==
    \A r1, r2 \in Requests :
        ( /\ r1 # r2
          /\ pc[r1] \in { "calling", "storing" }
          /\ Suspended(r2) )
        => ENABLED StepOf(r2)

\* C17: every non-200 status of the classifier is a failure: 503 is
\* Unavailable, any other non-200 status is Transient.  (Stated in its weakest
\* part: an attempt answered with a non-200 status never yields a
\* classification of status success.)
C17_NonOkStatusIsFailure ==
    \A r \in Requests :
        LET la == last_attempt[r]
        IN  (la.remote.kind = "response" /\ la.remote.status # 200) =>
                /\ ~(la.result.kind = "return" /\ la.result.value.status = "success")
                /\ classification[r].status # "success"

\* C18: when the endpoint URL or the token is missing, classify_document
\* raises a configuration error on the first attempt, before any request is
\* sent, and the retry policy makes no further attempt: no call, no wait, one
\* decision (re-raise), and the request ends with HTTP 500 naming the missing
\* setting.
C18_MissingConfigFailsFast ==
    \A r \in Requests :
        (~cfg.url \/ ~cfg.token) =>
            /\ calls[r] = 0
            /\ sent[r] = <<>>
            /\ waits[r] = <<>>
            /\ attempt_number[r] <= 1
            /\ Len(decisions[r]) <= 1
            /\ pc[r] \notin { "calling", "wait", "store", "storing" }
            /\ puts[r] = 0
            /\ decisions[r] # <<>> =>
                  /\ decisions[r][1] = "reraise"
                  /\ last_attempt[r].remote.kind = "none"
                  /\ last_attempt[r].result.kind = "raise"
                  /\ pc[r] = "done"
                  /\ response[r] =
                        HttpError(500, IF ~cfg.url THEN "HF API URL not configured"
                                                   ELSE "HF API token not configured")

\* a request that reached classification with the token missing
C18_Witness ==
    \E r \in Requests :
        /\ cfg.url /\ ~cfg.token
        /\ extract_result[r] = "ok"
        /\ decisions[r] = << "reraise" >>
        /\ pc[r] = "done"
        /\ response[r].detail = "HF API token not configured"

\* everything the handler of request r holds
RequestState(r) ==
    << pc[r], filename[r], patient_id[r], contents[r], extractions[r],
       extract_result[r], extracted_text[r], attempt_number[r], calls[r], sent[r],
       waits[r], last_attempt[r], decisions[r], retry_error[r], classification[r],
       puts[r], put_key[r], put_result[r], response[r] >>

\* r's attempts are counted by r's own calls, waits and decisions
OwnAttemptBudget(r) ==
    /\ calls[r] <= MaxAttempts
    /\ attempt_number[r] = (IF extract_result[r] = "ok" THEN 1 ELSE 0) + Len(waits[r])
    /\ calls[r] <= attempt_number[r]
    /\ Len(decisions[r]) <= calls[r]
    /\ Len(decisions[r]) >= calls[r] - 1

\* C19: concurrent requests are independent.  Each has its own attempt budget
\* and its own classification result; under every interleaving a step changes
\* the state of one request only, so the attempts and failures of one
\* request neither use up nor reset those of another.
\* The candidate labels are DOCUMENT_TYPES, which no step assigns.
C19_RequestsIndependent ==
    /\ [](\A r \in Requests : OwnAttemptBudget(r))
    /\ [][ \A r \in Requests :
              RequestState(r)' # RequestState(r) =>
                  \A q \in Requests \ {r} : RequestState(q)' = RequestState(q) ]_vars

\* two requests each used both of their attempts, one ending in the fallback
\* and one in a classification of its own
C19_Witness ==
    \E r1, r2 \in Requests :
        /\ r1 # r2
        /\ calls[r1] = MaxAttempts /\ calls[r2] = MaxAttempts
        /\ classification[r1].status = "fallback_used"
        /\ classification[r2].status = "success"
        /\ pc[r1] = "done" /\ pc[r2] = "done"

\* the outcome of a finished request: processed, HTTP 400 or HTTP 500
Outcome(r) ==
    \/ response[r].code = 200 /\ response[r].status = "processed"
    \/ response[r].code = 400 /\ response[r].status = "error"
    \/ response[r].code = 500 /\ response[r].status = "error"

\* C20: every request terminates with exactly one outcome (processed, HTTP
\* 400 or HTTP 500) whatever the collaborators do, after at most 2 remote
\* calls and at most 1 storage write.  (Stated in the part a finite run
\* refutes: the counts never exceed these, a request has an outcome exactly
\* when it is finished, and an unfinished request always has a next step.)
C20_EveryRequestTerminates ==
    \A r \in Requests :
        /\ calls[r] <= 2
        /\ puts[r] <= 1
        /\ pc[r] = "done" => Outcome(r)
        /\ pc[r] # "done" => response[r] = NoResponse
        /\ pc[r] \notin { "done", "absent" } => ENABLED Next

=============================================================================
